---- MODULE Spec2Model ----
(***************************************************************************)
(* Model of app.py: the album-art batch pass over a music folder           *)
(* (process_folder), its helpers, and the image normaliser resize_to_400.  *)
(*                                                                         *)
(* The folder, the MP3 container (mutagen), the image codec (Pillow) and   *)
(* the iTunes lookup are the environment.  A fact of the environment is    *)
(* fixed at the moment the code first reads it and stays fixed afterwards  *)
(* (a later run over the same folder reads the same file again).           *)
(***************************************************************************)
EXTENDS Integers, Sequences, FiniteSets, TLC

\* ---------------------------------------------------------------- bounds
MaxFiles == 2        \* files in a folder of files of any kind (Spec)
MaxDupFiles == 3     \* files in a folder of DupFiles (SpecDup)
MaxRerunFiles == 2   \* files in a folder of RerunFiles (SpecRerun)
MaxRuns == 2         \* passes over the same folder (SpecRerun)

\* ------------------------------------------------------ program constants
MAX_SIZE == 400
DUP_WINDOW == 2
DOWNLOAD_SIZE == 600

\* Python's None for integers (durations, image sizes) and for strings.
None == -1
NoneStr == "None"

\* ------------------------------------------------------------ sample data
\* File names the driver may yield (all pass the '.mp3' extension filter).
FileNames == {"Artist - Song.mp3", "ARTIST_SONG.MP3", " - Song.mp3"}

\* int(audio.info.length) of a readable file.
Durations == {118, 120, 121}

\* Image dimensions used to exercise the geometry rule and the normaliser.
Dims == {1, 2, 100, 399, 400, 401, 600, 799, 800, 1000, 4000}

\* Byte strings: nothing (None or b''), non-image bytes, an encoded image.
NoBytes == [kind |-> "none", w |-> 0, h |-> 0]
Garbage == [kind |-> "garbage", w |-> 0, h |-> 0]
Image(w, h) == [kind |-> "image", w |-> w, h |-> h]

\* A file without any ID3 tag (audio.tags is None), and a fact not read yet.
NoTags == [kind |-> "notags", w |-> 0, h |-> 0]
Unread == [kind |-> "unread", w |-> 0, h |-> 0]

\* What the tag store may hold for a file when the run first reads it.
EmbeddedArts == {NoTags, NoBytes, Garbage, Image(MAX_SIZE, MAX_SIZE),
                 Image(399, 800), Image(800, 800)}

\* What the iTunes lookup may return for a file.
ProviderResults == {NoBytes, Garbage, Image(DOWNLOAD_SIZE, DOWNLOAD_SIZE)}

StatKeys == {"total_checked", "has_art", "resized", "replaced_small",
             "added_missing", "invalid_name", "download_failed",
             "corrupted_art"}

VARIABLES
    pc,          \* "scanning" | "done" | "aborted" (uncaught exception)
    run,         \* number of the current pass over the folder
    nfiles,      \* number of .mp3 files os.walk yields
    idx,         \* files of this pass already handled by the loop
    files,       \* per file: what is on disk / what the provider answers
    results,     \* per file handled in this pass: what the loop body did
    prevResults, \* results of the previous pass
    stats,       \* process_folder's stats
    seen,        \* process_folder's seen: key -> sequence of {path, duration}
    duplicates,  \* process_folder's duplicates
    summary,     \* <<>> until the summary is printed, then <<stats, pairs>>
    img,         \* image handed to the pure image functions
    verdict,     \* geometry verdict of img ("" before classification)
    canvas       \* result of resize_to_400(img) (<<>> before)

vars == <<pc, run, nfiles, idx, files, results, prevResults, stats, seen,
          duplicates, summary, img, verdict, canvas>>

folderVars == <<pc, run, nfiles, idx, files, results, prevResults, stats,
                seen, duplicates, summary>>
imageVars == <<img, verdict, canvas>>

\* ---------------------------------------------------------------- helpers
Abs(n) == IF n < 0 THEN -n ELSE n
Max(a, b) == IF a >= b THEN a ELSE b

\* normalize_name on the sample names: extension stripped, lower-cased,
\* every run of characters outside [a-z0-9 ] turned into one space, trimmed.
normalize_name(name) ==
    CASE name = "Artist - Song.mp3" -> "artist song"
      [] name = "ARTIST_SONG.MP3" -> "artist song"
      [] name = " - Song.mp3" -> "song"

\* extract_metadata_from_filename on the sample names.
extract_metadata_from_filename(name) ==
    CASE name = "Artist - Song.mp3" -> <<"Artist", "Song">>
      [] name = "ARTIST_SONG.MP3" -> <<NoneStr, NoneStr>>
      [] name = " - Song.mp3" -> <<"", "Song">>

\* Python truthiness of an optional string / of optional bytes.
Falsy(s) == s \in {NoneStr, ""}
Truthy(bytes) == bytes.kind # "none"

\* get_audio_duration: None when MP3(path) raises.
get_audio_duration(f) == IF f.mp3 = "bad" THEN None ELSE f.length

\* get_image_size: (None, None) when the bytes do not decode.
get_image_size(bytes) ==
    IF bytes.kind = "image" THEN <<bytes.w, bytes.h>> ELSE <<None, None>>

\* ----------------------------------------------------- image normaliser
\* Pillow's Image.thumbnail((MAX_SIZE, MAX_SIZE)), called at line 56: the size
\* is kept when it already fits; otherwise the longer side becomes MAX_SIZE
\* and the other side is floor or ceil of the proportional length, whichever
\* keeps the aspect ratio closer (floor on a tie), and at least 1.
RoundAspectX(w, h) ==
    LET lo == (MAX_SIZE * w) \div h
        hi == IF (MAX_SIZE * w) % h = 0 THEN lo ELSE lo + 1
        key(n) == Abs(MAX_SIZE * w - n * h)
    IN  Max(IF key(lo) <= key(hi) THEN lo ELSE hi, 1)

RoundAspectY(w, h) ==
    LET lo == (MAX_SIZE * h) \div w
        hi == IF (MAX_SIZE * h) % w = 0 THEN lo ELSE lo + 1
        key(n) == Abs(w * n - MAX_SIZE * h)
    IN  Max(IF lo = 0 \/ key(lo) * hi <= key(hi) * lo THEN lo ELSE hi, 1)

\* Variant: scales every image to fit, small ones included.
ThumbnailAlwaysFits(w, h) ==
    IF h >= w THEN <<RoundAspectX(w, h), MAX_SIZE>>
    ELSE <<MAX_SIZE, RoundAspectY(w, h)>>

Thumbnail(w, h) ==
    IF MAX_SIZE >= w /\ MAX_SIZE >= h THEN <<w, h>>
    ELSE IF h >= w THEN <<RoundAspectX(w, h), MAX_SIZE>>
    ELSE <<MAX_SIZE, RoundAspectY(w, h)>>

\* resize_to_400 on decodable bytes: the canvas, where the scaled image is
\* pasted and how large the scaled image is.
resize_to_400(image_bytes) ==
    LET scaled == Thumbnail(image_bytes.w, image_bytes.h)
    IN  [width |-> MAX_SIZE, height |-> MAX_SIZE,
         x |-> (MAX_SIZE - scaled[1]) \div 2,
         y |-> (MAX_SIZE - scaled[2]) \div 2,
         sw |-> scaled[1], sh |-> scaled[2]]

\* The bytes resize_to_400 returns, as the codec decodes them again.
Encoded(c) == Image(c.width, c.height)

\* ------------------------------------------------------- geometry policy
\* The size tests of process_folder on the result of get_image_size.
\* Variant: art counts as too small only when both sides are below target.
GeometryBothBelow(width, height) ==
    IF width = None \/ height = None THEN "UNREADABLE"
    ELSE IF width = MAX_SIZE /\ height = MAX_SIZE THEN "EXACT"
    ELSE IF width < MAX_SIZE /\ height < MAX_SIZE THEN "TOO_SMALL"
    ELSE "TOO_LARGE"

Geometry(width, height) ==
    IF width = None \/ height = None THEN "UNREADABLE"
    ELSE IF width = MAX_SIZE /\ height = MAX_SIZE THEN "EXACT"
    ELSE IF width < MAX_SIZE \/ height < MAX_SIZE THEN "TOO_SMALL"
    ELSE "TOO_LARGE"

\* --------------------------------------------------- duplicate detection
\* Variant: a window one second wider.
DurationsMatchWider(prev, dur) == Abs(prev - dur) <= DUP_WINDOW + 1

DurationsMatch(prev, dur) == Abs(prev - dur) <= DUP_WINDOW

\* Variant: the loop without its break, every matching entry is reported.
RECURSIVE ScanWithoutBreak(_, _, _)
ScanWithoutBreak(bucket, i, dur) ==
    IF i > Len(bucket) THEN <<>>
    ELSE IF DurationsMatch(bucket[i].duration, dur)
         THEN <<bucket[i].path>> \o ScanWithoutBreak(bucket, i + 1, dur)
    ELSE ScanWithoutBreak(bucket, i + 1, dur)

\* The for loop over seen[norm] with its break: the paths of the entries a
\* pair is appended for, that is the first entry whose duration matches.
RECURSIVE ScanBucket(_, _, _)
ScanBucket(bucket, i, dur) ==
    IF i > Len(bucket) THEN <<>>
    ELSE IF DurationsMatch(bucket[i].duration, dur) THEN <<bucket[i].path>>
    ELSE ScanBucket(bucket, i + 1, dur)

\* Lines 151-159 given the scan's hits: the new seen and duplicates.
Indexed(seen0, dups0, path, norm, dur) ==
    IF norm \in DOMAIN seen0
    THEN LET hit == ScanBucket(seen0[norm], 1, dur)
             entry == [path |-> path, duration |-> dur]
         IN  [seen |-> [seen0 EXCEPT ![norm] = Append(@, entry)],
              duplicates |->
                  dups0 \o [n \in 1 .. Len(hit) |-> <<hit[n], path>>]]
    ELSE [seen |-> [k \in DOMAIN seen0 \cup {norm} |->
                      IF k = norm
                      THEN <<[path |-> path, duration |-> dur]>>
                      ELSE seen0[k]],
          duplicates |-> dups0]

\* Variant: a file without a readable duration is indexed like any other.
ObserveAlways(seen0, dups0, path, norm, dur) ==
    Indexed(seen0, dups0, path, norm, dur)

\* Lines 151-159: the new seen index and duplicates list after one file.
Observe(seen0, dups0, path, norm, dur) ==
    IF dur # None
    THEN Indexed(seen0, dups0, path, norm, dur)
    ELSE [seen |-> seen0, duplicates |-> dups0]

\* ----------------------------------------------------------- tag store
\* get_embedded_art returns the first APIC frame, or None; it raises when
\* MP3(path) raises ("bad") and when the file has no ID3 tag at all
\* (audio.tags is None and audio.tags.values() raises).
GetEmbeddedArtRaises(f) == f.mp3 = "bad" \/ f.art = NoTags
get_embedded_art(f) == f.art

\* Variant: the downloaded bytes are stored as they are, not normalised.
EmbedUnresized(f, image_bytes, saveOk) ==
    IF image_bytes.kind = "image" /\ saveOk THEN image_bytes ELSE f.art

\* embed_album_art: the art in the file afterwards.  Every exception (the
\* bytes do not decode in resize_to_400, audio.save() fails) is caught and
\* printed, and the file then keeps what it had.  saveOk: audio.save() works.
embed_album_art(f, image_bytes, saveOk) ==
    IF image_bytes.kind = "image" /\ saveOk
    THEN Encoded(resize_to_400(image_bytes))
    ELSE f.art

\* download_album_art: bytes of the artwork, or None on any failure.
download_album_art(f) == f.provider

\* ------------------------------------------------------- art processing
\* One result of lines 162-218: the outcome, whether an exception left the
\* loop, the statistics incremented, the calls made and the art afterwards.
Result(outcome, bump, fetches, writes, art) ==
    [outcome |-> outcome, raised |-> FALSE, bump |-> bump,
     fetches |-> fetches, writes |-> writes, art |-> art]

Raised(f) ==
    [outcome |-> "NONE", raised |-> TRUE, bump |-> {},
     fetches |-> 0, writes |-> 0, art |-> f.art]

\* Variant: the download's result is not tested before it is embedded.
NoArtBranchUnchecked(f, saveOk) ==
    Result("ADDED", {"added_missing"}, 1, 1,
           embed_album_art(f, download_album_art(f), saveOk))

\* The branch for art that is absent (lines 206-218).
NoArtBranch(f, saveOk) ==
    LET new_art == download_album_art(f)
    IN  IF Truthy(new_art)
        THEN Result("ADDED", {"added_missing"}, 1, 1,
                    embed_album_art(f, new_art, saveOk))
        ELSE Result("DOWNLOAD_FAILED", {"download_failed"}, 1, 0, f.art)

\* The branch for art below the target size (lines 186-198).
TooSmallBranch(f, saveOk) ==
    LET new_art == download_album_art(f)
    IN  IF Truthy(new_art)
        THEN Result("REPLACED", {"has_art", "replaced_small"}, 1, 1,
                    embed_album_art(f, new_art, saveOk))
        ELSE Result("DOWNLOAD_FAILED", {"has_art", "download_failed"},
                    1, 0, f.art)

\* Variant: art that is too large is downloaded again like art too small.
TooLargeBranchDownloads(f, saveOk) ==
    Result("RESIZED", {"has_art", "resized"}, 1, 1,
           embed_album_art(f, download_album_art(f), saveOk))

\* The branch for art above the target size (lines 199-204).
TooLargeBranch(f, saveOk) ==
    Result("RESIZED", {"has_art", "resized"}, 0, 1,
           embed_album_art(f, get_embedded_art(f), saveOk))

ArtProcessing(f, saveOk) ==
    LET meta == extract_metadata_from_filename(f.name)
    IN  IF Falsy(meta[1]) \/ Falsy(meta[2])
        THEN Result("INVALID_NAME", {"invalid_name"}, 0, 0, f.art)
        ELSE IF GetEmbeddedArtRaises(f) THEN Raised(f)
        ELSE LET current_art == get_embedded_art(f)
                 size == get_image_size(current_art)
                 geometry == Geometry(size[1], size[2])
             IN  IF ~Truthy(current_art) THEN NoArtBranch(f, saveOk)
                 ELSE CASE geometry = "UNREADABLE" ->
                             Result("CORRUPTED", {"has_art", "corrupted_art"},
                                    0, 0, f.art)
                        [] geometry = "EXACT" ->
                             Result("KEPT", {"has_art"}, 0, 0, f.art)
                        [] geometry = "TOO_SMALL" -> TooSmallBranch(f, saveOk)
                        [] geometry = "TOO_LARGE" -> TooLargeBranch(f, saveOk)

\* ---------------------------------------------------------- environment
\* The files a folder may hold.  A fact the code never reads is left open:
\* the length when MP3(path) raises, the tags when the name is skipped or
\* MP3(path) raises, the provider's answer when it is not asked.
ValidNames ==
    {n \in FileNames : ~Falsy(extract_metadata_from_filename(n)[1])
                       /\ ~Falsy(extract_metadata_from_filename(n)[2])}

AsksProvider(art) ==
    \/ art = NoBytes
    \/ Geometry(get_image_size(art)[1], get_image_size(art)[2]) = "TOO_SMALL"

File(name, mp3, length, art, provider) ==
    [name |-> name, mp3 |-> mp3, length |-> length, art |-> art,
     provider |-> provider]

FilesOf(lengths, arts) ==
    {File(n, "bad", None, Unread, Unread) : n \in FileNames}
    \cup {File(n, "ok", l, Unread, Unread) :
            n \in FileNames \ ValidNames, l \in lengths}
    \cup {File(n, "ok", l, a, Unread) :
            n \in ValidNames, l \in lengths,
            a \in {a \in arts : ~AsksProvider(a)}}
    \cup {File(n, "ok", l, a, p) :
            n \in ValidNames, l \in lengths,
            a \in {a \in arts : AsksProvider(a)},
            p \in ProviderResults}

\* Any file: every length with every tag content and provider answer.
FolderFiles == FilesOf(Durations, EmbeddedArts)

\* Files for duplicate detection: every name and length, art that needs no
\* work, is corrupt, or cannot be read for want of a tag.
DupFiles == FilesOf(Durations, {Image(MAX_SIZE, MAX_SIZE), Garbage, NoTags})

\* Files for repeated runs: every tag content and provider answer, one
\* length.
RerunFiles == FilesOf({120}, EmbeddedArts)

\* ---------------------------------------------------------------- state
ZeroStats == [k \in StatKeys |-> 0]
NoSeen == [k \in {} |-> <<>>]
NoSummary == [printed |-> FALSE, stats |-> ZeroStats, pairs |-> 0]
NoCanvas == [width |-> 0, height |-> 0, x |-> 0, y |-> 0, sw |-> 0, sh |-> 0]

\* process_folder has set up stats, log_lines, seen and duplicates.
InitFolder(sizes) ==
    /\ pc = "scanning"
    /\ run = 1
    /\ nfiles \in sizes
    /\ idx = 0
    /\ files = <<>>
    /\ results = <<>>
    /\ prevResults = <<>>
    /\ stats = ZeroStats
    /\ seen = NoSeen
    /\ duplicates = <<>>
    /\ summary = NoSummary

NoImage ==
    /\ img = NoBytes
    /\ verdict = ""
    /\ canvas = NoCanvas

Init == InitFolder(0 .. MaxFiles) /\ NoImage

InitDup == InitFolder(0 .. MaxDupFiles) /\ NoImage

InitRerun == InitFolder(1 .. MaxRerunFiles) /\ NoImage

\* No folder is processed; an image is handed to the image functions.
InitImage ==
    /\ pc = "done"
    /\ run = 1
    /\ nfiles = 0
    /\ idx = 0
    /\ files = <<>>
    /\ results = <<>>
    /\ prevResults = <<>>
    /\ stats = ZeroStats
    /\ seen = NoSeen
    /\ duplicates = <<>>
    /\ summary = NoSummary
    /\ img \in {Image(w, h) : w \in Dims, h \in Dims} \cup {Garbage}
    /\ verdict = ""
    /\ canvas = NoCanvas

\* -------------------------------------------------------------- actions
\* The file os.walk yields next: the one already known at that position, or
\* any file when the position is read for the first time.
NextFiles(folder) == IF idx < Len(files) THEN {files[idx + 1]} ELSE folder

\* One iteration of the loop over the files (lines 140-218) on the next
\* file, whose path is its position in the walk.
ProcessFile(folder) ==
    /\ pc = "scanning"
    /\ idx < nfiles
    /\ \E f \in NextFiles(folder), saveOk \in BOOLEAN :
          LET path == idx + 1
              obs == Observe(seen, duplicates, path, normalize_name(f.name),
                             get_audio_duration(f))
              r == ArtProcessing(f, saveOk)
              after == [f EXCEPT !.art = r.art]
          IN  /\ idx' = path
              /\ stats' = [k \in StatKeys |->
                             IF k = "total_checked" \/ k \in r.bump
                             THEN stats[k] + 1 ELSE stats[k]]
              /\ seen' = obs.seen
              /\ duplicates' = obs.duplicates
              /\ files' = IF idx < Len(files)
                          THEN [files EXCEPT ![path] = after]
                          ELSE Append(files, after)
              /\ results' = Append(results,
                               [outcome |-> r.outcome, raised |-> r.raised,
                                fetches |-> r.fetches, writes |-> r.writes,
                                stored |-> r.art # f.art,
                                before |-> f.art])
              /\ pc' = IF r.raised THEN "aborted" ELSE "scanning"
    /\ UNCHANGED <<run, nfiles, prevResults, summary>>
    /\ UNCHANGED imageVars

\* The walk is over: the summary and the duplicate list are printed
\* (lines 220-253).
Summarize ==
    /\ pc = "scanning"
    /\ idx = nfiles
    /\ pc' = "done"
    /\ summary' = [printed |-> TRUE, stats |-> stats,
                   pairs |-> Len(duplicates)]
    /\ UNCHANGED <<run, nfiles, idx, files, results, prevResults, stats, seen,
                   duplicates>>
    /\ UNCHANGED imageVars

\* The user starts the program again on the same folder: process_folder
\* starts from fresh stats, seen and duplicates (lines 132-135).
StartRun ==
    /\ pc \in {"done", "aborted"}
    /\ run < MaxRuns
    /\ run' = run + 1
    /\ pc' = "scanning"
    /\ idx' = 0
    /\ prevResults' = results
    /\ results' = <<>>
    /\ stats' = ZeroStats
    /\ seen' = NoSeen
    /\ duplicates' = <<>>
    /\ summary' = NoSummary
    /\ UNCHANGED <<nfiles, files>>
    /\ UNCHANGED imageVars

\* The size tests applied to an image (get_image_size, lines 174-199).
Classify ==
    /\ img # NoBytes
    /\ verdict = ""
    /\ verdict' = Geometry(get_image_size(img)[1], get_image_size(img)[2])
    /\ UNCHANGED <<img, canvas>>
    /\ UNCHANGED folderVars

\* resize_to_400 applied to an image that decodes.
Normalize ==
    /\ img.kind = "image"
    /\ canvas = NoCanvas
    /\ canvas' = resize_to_400(img)
    /\ UNCHANGED <<img, verdict>>
    /\ UNCHANGED folderVars

Next == ProcessFile(FolderFiles) \/ Summarize

NextDup == ProcessFile(DupFiles) \/ Summarize

NextRerun == ProcessFile(RerunFiles) \/ Summarize \/ StartRun

NextImage == Classify \/ Normalize

Spec == Init /\ [][Next]_vars

SpecDup == InitDup /\ [][NextDup]_vars

SpecRerun == InitRerun /\ [][NextRerun]_vars

SpecImage == InitImage /\ [][NextImage]_vars

\* ------------------------------------------------------------- properties
Handled == DOMAIN results
Key(i) == normalize_name(files[i].name)
Duration(i) == get_audio_duration(files[i])
CountOutcome(o) == Cardinality({i \in Handled : results[i].outcome = o})
WriteOutcomes == {"ADDED", "REPLACED", "RESIZED"}
ProviderGaveBytes(i) == files[i].provider.kind \in {"garbage", "image"}
BelowTarget(art) ==
    art.kind = "image" /\ (art.w < MAX_SIZE \/ art.h < MAX_SIZE)

\* The decision table as the specification states it, on the raw inputs.
TableOutcome(i) ==
    LET art == results[i].before
    IN  IF files[i].name \notin ValidNames THEN "INVALID_NAME"
        ELSE IF art.kind = "none"
             THEN IF ProviderGaveBytes(i) THEN "ADDED" ELSE "DOWNLOAD_FAILED"
        ELSE IF art.kind = "garbage" THEN "CORRUPTED"
        ELSE IF art.w = MAX_SIZE /\ art.h = MAX_SIZE THEN "KEPT"
        ELSE IF BelowTarget(art)
             THEN IF ProviderGaveBytes(i) THEN "REPLACED"
                  ELSE "DOWNLOAD_FAILED"
        ELSE "RESIZED"

C2_WritesAndFetches ==
    \A i \in Handled :
        LET r == results[i]
        IN  /\ r.writes <= 1
            /\ r.fetches <= 1
            /\ (r.writes = 1) = (r.outcome \in WriteOutcomes)
            /\ r.outcome \notin WriteOutcomes => files[i].art = r.before
            /\ (r.fetches = 1) =
                   (r.before.kind = "none" \/ BelowTarget(r.before))

\* C2 witness: art too large was resized without a fetch, and a download
\* was tried once and failed, in the same run.
C2_Witness ==
    \E i, j \in Handled :
        /\ results[i].outcome = "RESIZED"
        /\ results[i].fetches = 0
        /\ results[j].outcome = "DOWNLOAD_FAILED"
        /\ results[j].fetches = 1

\* C5 (as claimed): no file aborts the run, every file the loop reaches
\* receives an outcome.
C5_NoFileAbortsRun ==
    /\ pc # "aborted"
    /\ \A i \in Handled : results[i].outcome # "NONE"

\* C6 (as claimed): the summary counts as added, replaced or resized only the
\* files whose new art was stored.
C6_FailedWriteNotCounted ==
    summary.printed =>
        summary.stats["added_missing"] + summary.stats["replaced_small"]
            + summary.stats["resized"]
        = Cardinality({i \in Handled : results[i].stored})

\* --------------------------------------------- duplicate-pair properties
Pairs == {duplicates[k] : k \in DOMAIN duplicates}
Readable(i) == Duration(i) # None
Close(i, j) ==
    /\ Readable(i)
    /\ Readable(j)
    /\ Duration(i) - Duration(j) <= 2
    /\ Duration(j) - Duration(i) <= 2

\* C3: every reported pair (a, b) is two distinct handled files with the same
\* normalized key and readable durations at most 2 seconds apart, a walked
\* before b, and no pair of files is reported twice, in either order.
C3_PairsAreSound ==
    /\ \A k \in DOMAIN duplicates :
          LET a == duplicates[k][1]
              b == duplicates[k][2]
          IN  /\ a \in Handled
              /\ b \in Handled
              /\ a < b
              /\ Key(a) = Key(b)
              /\ Close(a, b)
    /\ \A k, l \in DOMAIN duplicates :
          k # l =>
              {duplicates[k][1], duplicates[k][2]}
                  # {duplicates[l][1], duplicates[l][2]}

\* C3 witness: two pairs have been reported in one run.
C3_Witness ==
    /\ Len(duplicates) = 2
    /\ idx = 3

\* Three handled files i < j < k that are all the files of their key with a
\* readable duration, pairwise at most 2 seconds apart.
CloseTriple(i, j, k) ==
    /\ i < j
    /\ j < k
    /\ Key(i) = Key(j)
    /\ Key(j) = Key(k)
    /\ Close(i, j)
    /\ Close(i, k)
    /\ Close(j, k)
    /\ \A m \in Handled \ {i, j, k} : Key(m) # Key(i) \/ ~Readable(m)
PairsAmong(i, j, k) == {p \in Pairs : p[1] \in {i, j, k} /\ p[2] \in {i, j, k}}

\* C4 (as claimed): three such records produce exactly one pair in total.
C4_TripleGivesOnePair ==
    \A i, j, k \in Handled :
        CloseTriple(i, j, k) => Cardinality(PairsAmong(i, j, k)) = 1

\* C4 (amended): three such records produce exactly two pairs, one for each
\* later record with its first match, which is the first record.
C4_TripleGivesTwoPairs ==
    \A i, j, k \in Handled :
        CloseTriple(i, j, k) => PairsAmong(i, j, k) = {<<i, j>>, <<i, k>>}

\* C4 witness: three records of one key, 118, 120 and 120 seconds long, have
\* been handled.
C4_Witness ==
    /\ idx = 3
    /\ CloseTriple(1, 2, 3)
    /\ Duration(1) = 118
    /\ Duration(2) = 120

InSeen(i) ==
    \E key \in DOMAIN seen :
        \E n \in DOMAIN seen[key] : seen[key][n].path = i
InSeenUnderKey(i) ==
    /\ Key(i) \in DOMAIN seen
    /\ \E n \in DOMAIN seen[Key(i)] : seen[Key(i)][n].path = i
InSomePair(i) == \E p \in Pairs : p[1] = i \/ p[2] = i

\* C8 (as claimed): a handled record without a readable duration is indexed
\* under its key, and is in no pair.
C8_UnreadableIsIndexed ==
    \A i \in Handled : ~Readable(i) => InSeenUnderKey(i) /\ ~InSomePair(i)

\* C8 (amended): a handled record without a readable duration is not indexed
\* under any key, and is in no pair.
C8_UnreadableIsNotIndexed ==
    \A i \in Handled : ~Readable(i) => ~InSeen(i) /\ ~InSomePair(i)

\* C8 witness: a record without a readable duration was handled, then a
\* record of the same key with one, and the run went on.
C8_Witness ==
    \E i, j \in Handled :
        /\ i < j
        /\ ~Readable(i)
        /\ Readable(j)
        /\ Key(i) = Key(j)
        /\ InSeenUnderKey(j)
        /\ pc = "done"

\* ------------------------------------------------- repeated-run properties
InBothRuns == {i \in Handled : i \in DOMAIN prevResults}
Decided(r) == r.outcome # "NONE"

\* C7 (as claimed): a file decided in two successive runs is KEPT in the
\* second.
C7_SecondRunKeeps ==
    run >= 2 =>
        \A i \in InBothRuns :
            Decided(prevResults[i]) /\ Decided(results[i])
                => results[i].outcome = "KEPT"

\* C7 (amended): a file whose new art was stored by a run, or which that run
\* kept, is KEPT by the next run, without a write and without a fetch; any
\* other file gets the outcome of the run before again.
C7_StoredOrKeptIsKept ==
    run >= 2 =>
        \A i \in InBothRuns :
            IF prevResults[i].stored \/ prevResults[i].outcome = "KEPT"
            THEN /\ results[i].outcome = "KEPT"
                 /\ results[i].writes = 0
                 /\ results[i].fetches = 0
                 /\ files[i].art = Image(MAX_SIZE, MAX_SIZE)
            ELSE results[i].outcome = prevResults[i].outcome

\* C7 witness: the second run has kept a file whose art the first run
\* downloaded and stored, and one whose art the first run resized.
C7_Witness ==
    /\ run = 2
    /\ \E i, j \in InBothRuns :
          /\ prevResults[i].outcome = "ADDED"
          /\ prevResults[i].stored
          /\ results[i].outcome = "KEPT"
          /\ prevResults[j].outcome = "RESIZED"
          /\ prevResults[j].stored
          /\ results[j].outcome = "KEPT"

\* ---------------------------------------------------------- image properties
Classified == verdict # "" /\ img.kind = "image"

\* C9: for decodable art the verdict is EXACT iff both sides equal the
\* target, TOO_SMALL iff it is not exact and a side is below the target,
\* TOO_LARGE iff both sides are at least the target and one is above it; it
\* is exactly one of the three.
C9_GeometryRule ==
    Classified =>
        LET w == img.w
            h == img.h
        IN  /\ verdict \in {"EXACT", "TOO_SMALL", "TOO_LARGE"}
            /\ (verdict = "EXACT") = (w = 400 /\ h = 400)
            /\ (verdict = "TOO_SMALL") =
                   (~(w = 400 /\ h = 400) /\ (w < 400 \/ h < 400))
            /\ (verdict = "TOO_LARGE") =
                   (w >= 400 /\ h >= 400 /\ (w > 400 \/ h > 400))

\* C9 witness: 399x800 art has been classified, as too small.
C9_Witness ==
    /\ Classified
    /\ img = Image(399, 800)
    /\ verdict = "TOO_SMALL"

Normalized == canvas # NoCanvas

\* C10: the scaled image is no larger than the input in either dimension,
\* both scaled sides are within 1..400, the paste offset is the floor of half
\* the free space, non-negative, and keeps the image inside the canvas, the
\* canvas is 400x400, and a 400x400 input is pasted unscaled at (0, 0).
C10_NormalizerGeometry ==
    Normalized =>
        /\ canvas.sw <= img.w
        /\ canvas.sh <= img.h
        /\ canvas.sw \in 1 .. 400
        /\ canvas.sh \in 1 .. 400
        /\ canvas.x = (400 - canvas.sw) \div 2
        /\ canvas.y = (400 - canvas.sh) \div 2
        /\ canvas.x >= 0
        /\ canvas.y >= 0
        /\ canvas.x + canvas.sw <= 400
        /\ canvas.y + canvas.sh <= 400
        /\ canvas.width = 400
        /\ canvas.height = 400
        /\ img = Image(400, 400) =>
               canvas.x = 0 /\ canvas.y = 0
               /\ canvas.sw = 400 /\ canvas.sh = 400

\* C10 witness: a 1000x399 image has been normalised, scaled down to 400x160
\* and pasted at (0, 120).
C10_Witness ==
    /\ Normalized
    /\ img = Image(1000, 399)
    /\ canvas.sw = 400
    /\ canvas.sh = 160
    /\ canvas.x = 0
    /\ canvas.y = 120

====
